---- MODULE Spec2Model ----
(***************************************************************************)
(* Model of the numeral converters of cydanil/numerals:                    *)
(*   roman.rs     to_roman  (integer -> Roman string, ASCII or Unicode)    *)
(*                to_arabic (Roman string -> integer, with validation)     *)
(*   japanese.rs  to_japanese (u64 -> kanji string)                        *)
(*                                                                         *)
(* A Rust char is modelled as a TLA+ string naming it: the ASCII letters   *)
(* by themselves ("I", "v", "S"), every other character by its code point  *)
(* ("U2160" is the Unicode numeral ONE).  A Rust String is a sequence of   *)
(* chars.  A kanji is named by its reading ("man" is U+4E07).              *)
(* A u64 that may exceed the range of TLC's integers (the input            *)
(* and the power counter of to_japanese) is a sequence of decimal digits,  *)
(* most significant first, as input.to_string() produces it.               *)
(***************************************************************************)
EXTENDS Integers, Sequences, FiniteSets, TLC

VARIABLES phase, input, use_unicode, roman, encoded, decoded, jinput, jret,
          scan, pos, last

vars == <<phase, input, use_unicode, roman, encoded, decoded, jinput, jret,
          scan, pos, last>>

(***************************************************************************)
(* Bounds of the explored inputs.                                          *)
(***************************************************************************)
\* integers handed to to_roman: 0..MaxInput (the valid range ends at 3999)
MaxInput == 4003
\* length of the strings handed to to_arabic over Alphabet
MaxLen == 5
\* length of the strings handed to to_arabic over the seven ASCII letters
MaxAsciiLen == 6
\* nonzero digits, besides the leading one, of the inputs of to_japanese
MaxExtra == 2
\* length of the strings whose decoding is followed glyph by glyph
MaxScanLen == 5

(***************************************************************************)
(* Result<T, Box<dyn Error>> and a panic (abort) of the call.              *)
(***************************************************************************)
None == [tag |-> "None"]

Ok(v) == [tag |-> "Ok", val |-> v]

Err(m) == [tag |-> "Err", msg |-> m]

Panic(m) == [tag |-> "Panic", msg |-> m]

(***************************************************************************)
(* roman.rs: the tables.                                                   *)
(***************************************************************************)
ROMAN_TO_ARABIC ==
    [ I     |-> 1,      \* ascii
      U2160 |-> 1,      \* unicode
      U2161 |-> 2,
      U2162 |-> 3,
      U2163 |-> 4,
      V     |-> 5,      \* ascii
      U2164 |-> 5,      \* unicode
      U2165 |-> 6,
      U2185 |-> 6,
      U2166 |-> 7,
      U2167 |-> 8,
      U2168 |-> 9,
      X     |-> 10,     \* ascii
      U2169 |-> 10,     \* unicode
      U216A |-> 11,
      L     |-> 50,     \* ascii
      U216C |-> 50,     \* unicode
      U2186 |-> 50,
      C     |-> 100,    \* ascii
      U216D |-> 100,    \* unicode
      D     |-> 500,    \* ascii
      U216E |-> 500,    \* unicode
      M     |-> 1000,   \* ascii
      U216F |-> 1000,   \* unicode
      U2180 |-> 1000,
      U2181 |-> 5000,
      U2182 |-> 10000,
      U2187 |-> 50000,
      U2188 |-> 100000 ]

NUMERALS == DOMAIN ROMAN_TO_ARABIC

ARABIC_TO_ASCII ==
    << <<1000, <<"M">> >>,
       <<900,  <<"C", "M">> >>,
       <<500,  <<"D">> >>,
       <<400,  <<"C", "D">> >>,
       <<100,  <<"C">> >>,
       <<90,   <<"X", "C">> >>,
       <<50,   <<"L">> >>,
       <<40,   <<"X", "L">> >>,
       <<10,   <<"X">> >>,
       <<9,    <<"I", "X">> >>,
       <<5,    <<"V">> >>,
       <<4,    <<"I", "V">> >>,
       <<1,    <<"I">> >> >>

\* the entries for 5 and 4 hold the ASCII letter V (0x56), not U+2164
ARABIC_TO_UNICODE ==
    << <<1000, <<"U216F">> >>,
       <<900,  <<"U216D", "U216F">> >>,
       <<500,  <<"U216E">> >>,
       <<400,  <<"U216D", "U216E">> >>,
       <<100,  <<"U216D">> >>,
       <<90,   <<"U2169", "U216D">> >>,
       <<50,   <<"U216C">> >>,
       <<40,   <<"U2169", "U216C">> >>,
       <<10,   <<"U2169">> >>,
       <<9,    <<"U2160", "U2169">> >>,
       <<5,    <<"V">> >>,
       <<4,    <<"U2160", "V">> >>,
       <<1,    <<"U2160">> >> >>

(***************************************************************************)
(* roman.rs: to_roman.                                                     *)
(***************************************************************************)
OutOfRangeMutant(n) == n < 1 \/ n > 4000

\* if input < 1 || input > 3999
OutOfRange(n) == n < 1 \/ n > 3999

\* while input % arabic < input { ret += roman; input -= arabic; }
RECURSIVE Emit(_, _, _)
Emit(st, arabic, glyphs) ==
    IF st.input % arabic < st.input
    THEN Emit([input |-> st.input - arabic, ret |-> st.ret \o glyphs],
              arabic, glyphs)
    ELSE st

\* for (arabic, roman) in list.iter() { ... }
RECURSIVE EmitAll(_, _, _)
EmitAll(st, list, i) ==
    IF i > Len(list) THEN st
    ELSE EmitAll(Emit(st, list[i][1], list[i][2]), list, i + 1)

to_roman(n, unicode) ==
    IF OutOfRange(n)
    THEN [tag |-> "Err",
          msg |-> "The value should be between 1 and 3999 inclusive, not {}",
          arg |-> n]
    ELSE LET list == IF unicode THEN ARABIC_TO_UNICODE ELSE ARABIC_TO_ASCII
         IN  Ok(EmitAll([input |-> n, ret |-> <<>>], list, 1).ret)

(***************************************************************************)
(* roman.rs: to_arabic.                                                    *)
(***************************************************************************)
\* char::to_uppercase, for the characters the model hands to to_arabic; a
\* character without an uppercase mapping is left as it is
UpperChar(c) ==
    CASE c = "i" -> <<"I">>
      [] c = "v" -> <<"V">>
      [] c = "x" -> <<"X">>
      [] c = "l" -> <<"L">>
      [] c = "c" -> <<"C">>
      [] c = "d" -> <<"D">>
      [] c = "m" -> <<"M">>
      [] c = "s" -> <<"S">>
      [] c = "U2170" -> <<"U2160">>    \* small roman numeral one
      [] c = "U2173" -> <<"U2163">>    \* small roman numeral four
      [] c = "U2174" -> <<"U2164">>    \* small roman numeral five
      [] c = "U217B" -> <<"U216B">>    \* small roman numeral twelve
      [] c = "U0131" -> <<"I">>        \* dotless i
      [] c = "U00DF" -> <<"S", "S">>   \* sharp s
      [] OTHER -> <<c>>

\* String::to_uppercase
RECURSIVE to_uppercase(_)
to_uppercase(s) ==
    IF s = <<>> THEN <<>>
    ELSE UpperChar(Head(s)) \o to_uppercase(Tail(s))

\* roman == "IIII" || roman == "<U+2160 four times>"
IsWatchmaker(s) ==
    \/ s = <<"I", "I", "I", "I">>
    \/ s = <<"U2160", "U2160", "U2160", "U2160">>

\* let mut characters = BTreeSet::new(); for c in roman.chars() { insert }
Characters(s) == {s[i] : i \in 1..Len(s)}

HasInvalidCharactersMutant(s) == s[Len(s)] \notin NUMERALS

\* !characters.is_subset(&NUMERALS)
HasInvalidCharacters(s) == ~(Characters(s) \subseteq NUMERALS)

\* buffer.pop_front(); buffer.push_back(current);
\* buffer[k] of the source is buf[k + 1] here
Shift(buf, current) == <<buf[2], buf[3], buf[4], current>>

TwoSubtractionsMutant(buf, current) == current < buf[1]

\* current < buffer[1]
TwoSubtractions(buf, current) == current < buf[2]

FourInARowMutant(buf, current) ==
    current = 1 /\ \A i \in 1..4 : buf[i] = current

\* buffer.iter().all(|&item| item == current)
FourInARow(buf, current) == \A i \in 1..4 : buf[i] = current

\* current == buffer[2] && (current == 50 || current == 500)
DoubleLD(buf, current) ==
    current = buf[3] /\ (current = 50 \/ current = 500)

SubtractiveMutant(buf, current) == current <= buf[3]

SubtractiveUnequal(buf, current) == current # buf[3]

\* current < buffer[2]
Subtractive(buf, current) == current < buf[3]

\* buffer[2] - current == current
UselessSubtraction(buf, current) == buf[3] - current = current

\* One iteration of  for c in roman.chars().rev() { ... } .
\* ROMAN_TO_ARABIC[&c] panics for a character that is not a key.
\* st.value < 0 stands for the u64 st.value + 2^64 (value -= current wrapped,
\* in a build without overflow checks); with overflow checks the
\* subtraction panics.
ScanStep(st, c, overflow_checks) ==
    IF st.status # "scan" THEN st
    ELSE IF c \notin NUMERALS THEN [st EXCEPT !.status = "key not found"]
    ELSE
    LET current == ROMAN_TO_ARABIC[c]
        buf == Shift(st.buffer, current)
    IN  IF TwoSubtractions(buf, current)
        THEN [st EXCEPT !.buffer = buf, !.status = "Invalid sequence"]
        ELSE IF FourInARow(buf, current)
        THEN [st EXCEPT !.buffer = buf, !.status = "Invalid sequence"]
        ELSE IF DoubleLD(buf, current)
        THEN [st EXCEPT !.buffer = buf, !.status = "Invalid sequence"]
        ELSE IF Subtractive(buf, current)
        THEN IF UselessSubtraction(buf, current)
             THEN [st EXCEPT !.buffer = buf, !.status = "Invalid sequence"]
             ELSE IF st.value < current /\ st.value >= 0 /\ overflow_checks
             THEN [st EXCEPT !.buffer = buf, !.status = "panic"]
             ELSE [st EXCEPT !.buffer = buf, !.value = st.value - current]
        ELSE [st EXCEPT !.buffer = buf, !.value = st.value + current]

\* the loop, from the last character to the first
RECURSIVE Scan(_, _, _, _)
Scan(st, s, i, overflow_checks) ==
    IF i = 0 THEN st
    ELSE Scan(ScanStep(st, s[i], overflow_checks), s, i - 1, overflow_checks)

ScanInit == [buffer |-> <<0, 0, 0, 0>>, value |-> 0, status |-> "scan"]

\* the branch the iteration for the character c takes from the state st:
\* "return" (one of the four return Err), "subtract" (value -= current) or
\* "add" (value += current)
Branch(st, c) ==
    IF c \notin NUMERALS THEN "key not found"
    ELSE
    LET current == ROMAN_TO_ARABIC[c]
        buf == Shift(st.buffer, current)
    IN  IF TwoSubtractions(buf, current) THEN "return"
        ELSE IF FourInARow(buf, current) THEN "return"
        ELSE IF DoubleLD(buf, current) THEN "return"
        ELSE IF Subtractive(buf, current)
        THEN IF UselessSubtraction(buf, current) THEN "return"
             ELSE "subtract"
        ELSE "add"

to_arabic(str, overflow_checks) ==
    LET s == to_uppercase(str)
    IN  IF s = <<>> THEN Err("Invalid empty string")
        ELSE IF IsWatchmaker(s) THEN Ok(4)
        ELSE IF HasInvalidCharacters(s)
        THEN Err("Input contains invalid characters")
        ELSE LET st == Scan(ScanInit, s, Len(s), overflow_checks)
             IN  IF st.status = "scan" THEN Ok(st.value)
                 ELSE IF st.status = "panic"
                 THEN Panic("attempt to subtract with overflow")
                 ELSE IF st.status = "key not found"
                 THEN Panic("key not found in HashMap")
                 ELSE Err(st.status)

(***************************************************************************)
(* japanese.rs: u64 values as decimal digit sequences.                     *)
(***************************************************************************)
\* 10^e, as the digits 1 0 ... 0
Pow10(e) == [i \in 1..(e + 1) |-> IF i = 1 THEN 1 ELSE 0]

\* std::u64::MAX = 18446744073709551615
U64Max == <<1, 8, 4, 4, 6, 7, 4, 4, 0, 7, 3, 7, 0, 9, 5, 5, 1, 6, 1, 5>>

\* a < b for digit sequences of the same length
RECURSIVE DigitsLess(_, _)
DigitsLess(a, b) ==
    IF a = <<>> THEN FALSE
    ELSE IF Head(a) # Head(b) THEN Head(a) < Head(b)
    ELSE DigitsLess(Tail(a), Tail(b))

\* the digit sequence (without leading zero) is a value of a u64
FitsU64(d) ==
    \/ Len(d) < Len(U64Max)
    \/ Len(d) = Len(U64Max) /\ ~DigitsLess(U64Max, d)

\* 10^20 mod 2^64, what 10^19 * 10 wraps to
Pow10_20Wrapped == <<7, 7, 6, 6, 2, 7, 9, 6, 3, 1, 4, 5, 2, 2, 4, 1, 9, 2, 0>>

(***************************************************************************)
(* japanese.rs: the table and to_japanese.                                 *)
(* rei 零, ichi 一 .. kyuu 九, juu 十, hyaku 百, sen 千, man 万, oku 億,  *)
(* chou 兆, kei 京                                                         *)
(***************************************************************************)
\* the table of the source: its largest key is 10_000_000_000_000_000 = 10^16
ARABIC_TO_KANJI ==
    << <<Pow10(16), <<"kei">> >>,
       <<Pow10(15), <<"sen", "chou">> >>,
       <<Pow10(14), <<"hyaku", "chou">> >>,
       <<Pow10(13), <<"juu", "chou">> >>,
       <<Pow10(12), <<"chou">> >>,
       <<Pow10(11), <<"sen", "oku">> >>,
       <<Pow10(10), <<"hyaku", "oku">> >>,
       <<Pow10(9),  <<"juu", "oku">> >>,
       <<Pow10(8),  <<"oku">> >>,
       <<Pow10(7),  <<"sen", "man">> >>,
       <<Pow10(6),  <<"hyaku", "man">> >>,
       <<Pow10(5),  <<"juu", "man">> >>,
       <<Pow10(4),  <<"man">> >>,
       <<Pow10(3),  <<"sen">> >>,
       <<Pow10(2),  <<"hyaku">> >>,
       <<Pow10(1),  <<"juu">> >>,
       <<<<9>>, <<"kyuu">> >>,
       <<<<8>>, <<"hachi">> >>,
       <<<<7>>, <<"nana">> >>,
       <<<<6>>, <<"roku">> >>,
       <<<<5>>, <<"go">> >>,
       <<<<4>>, <<"yon">> >>,
       <<<<3>>, <<"san">> >>,
       <<<<2>>, <<"ni">> >>,
       <<<<1>>, <<"ichi">> >>,
       <<<<0>>, <<"rei">> >> >>

\* HashMap::contains_key
HasKey(table, key) == \E i \in 1..Len(table) : table[i][1] = key

\* the value stored under key
Lookup(table, key) ==
    table[CHOOSE i \in 1..Len(table) : table[i][1] = key][2]

\* One iteration of  for digit in &input { ... } ; indexing the HashMap
\* with a missing key panics.  power * 10 beyond u64 panics in a build with
\* overflow checks and wraps in a build without.
JapaneseStep(st, digit, overflow_checks) ==
    IF st.status # "loop" THEN st
    ELSE IF ~HasKey(ARABIC_TO_KANJI, st.power)
    THEN [st EXCEPT !.status = "key not found"]
    ELSE
      LET pwr_symbol == Lookup(ARABIC_TO_KANJI, st.power)
          digit_symbol == Lookup(ARABIC_TO_KANJI, <<digit>>)
          current == IF st.power # <<1>>
                     THEN IF digit = 1 THEN pwr_symbol
                          ELSE digit_symbol \o pwr_symbol
                     ELSE digit_symbol
          ret == IF digit # 0 THEN current \o st.ret ELSE st.ret
          product == Append(st.power, 0)
      IN  IF FitsU64(product)
          THEN [st EXCEPT !.ret = ret, !.power = product]
          ELSE IF overflow_checks
          THEN [st EXCEPT !.ret = ret, !.status = "multiply overflow"]
          ELSE [st EXCEPT !.ret = ret, !.power = Pow10_20Wrapped]

\* the loop over the digits, least significant first (.rev())
RECURSIVE JapaneseLoop(_, _, _, _)
JapaneseLoop(st, digits, i, overflow_checks) ==
    IF i = 0 THEN st
    ELSE JapaneseLoop(JapaneseStep(st, digits[i], overflow_checks),
                      digits, i - 1, overflow_checks)

to_japanese(digits, overflow_checks) ==
    IF digits = <<0>> THEN Ok(<<"rei">>)
    ELSE LET st == JapaneseLoop([ret |-> <<>>, power |-> <<1>>,
                                 status |-> "loop"],
                                digits, Len(digits), overflow_checks)
         IN  IF st.status = "loop" THEN Ok(st.ret)
             ELSE IF st.status = "key not found"
             THEN Panic("key not found in HashMap")
             ELSE Panic("attempt to multiply with overflow")

(***************************************************************************)
(* The inputs of the calls.                                                *)
(***************************************************************************)
\* the strings over the alphabet A of length at most n
Strings(A, n) == UNION {[1..k -> A] : k \in 0..n}

AsciiLetters == {"I", "V", "X", "L", "C", "D", "M"}

\* the ASCII letters, a character that is no numeral, and the Unicode
\* numeral ONE
Alphabet == AsciiLetters \cup {"S", "U2160"}

\* the strings of the tests of roman.rs that Alphabet does not spell
TestStrings ==
    { <<"i", "v">>, <<"C", "v", "L">>, <<"i", "i", "i", "i">>, <<"l", "x", "s">>,
      <<"D", "D">>, <<"L", "D", "V", "X">>, <<"D", "C", "D">>,
      <<"M", "C", "M", "L", "X", "X", "X", "I", "V">>,
      <<"M", "M", "M", "C", "M", "X", "C", "I", "X">>,
      <<"U2173">>, <<"U216C", "U2168">>, <<"U216D", "U2174", "U216C">>,
      <<"U2180">>, <<"U2180", "X", "U2180", "I", "X">>,
      <<"U2188", "I", "X", "C">>, <<"U2188", "U2160", "V">>,
      <<"U2170", "U2170", "U2170", "U2170">>, <<"U00DF">>, <<"U217B">> }

\* digits of a u64 in base ten: 20
MaxDigits == Len(U64Max)

JLead == {1, 9}

JDigit == {1, 6}

\* the number of len digits with the leading digit lead and the digits
\* extras[j][2] at the places extras[j][1] (counted from the left, place 1
\* is ignored), zero elsewhere
Build(len, lead, extras) ==
    [i \in 1..len |->
        IF i = 1 THEN lead
        ELSE IF \E j \in DOMAIN extras : extras[j][1] = i
        THEN extras[CHOOSE j \in DOMAIN extras : extras[j][1] = i][2]
        ELSE 0]

\* the inputs of the tests of japanese.rs
JTests ==
    { <<0>>, <<1>>, <<1, 9, 9, 4>>, <<1, 1, 1, 1, 1>>, <<1, 0, 0, 0, 0, 0>>,
      <<1, 0, 0, 0, 0, 0, 0, 0, 0, 0, 6, 5, 0, 0, 0, 0>>, U64Max }

(***************************************************************************)
(* The calls.                                                              *)
(***************************************************************************)
\* no iteration of the loop of to_arabic has run: last.branch is the branch
\* of the latest iteration, last.before the total and last.current the
\* magnitude it started with, last.prior the branch of the iteration before
NoLast == [branch |-> "none", before |-> 0, current |-> 0, prior |-> "none"]

\* the loop of to_arabic is not running
NoScan ==
    /\ scan = ScanInit
    /\ pos = 0
    /\ last = NoLast

\* to_roman(input, use_unicode)
Encode ==
    /\ phase = "call"
    /\ encoded' = to_roman(input, use_unicode)
    /\ phase' = "encoded"
    /\ UNCHANGED <<input, use_unicode, roman, decoded, jinput, jret, scan, pos, last>>

\* to_arabic(to_roman(input, use_unicode).unwrap())
DecodeEncoded ==
    /\ phase = "encoded"
    /\ encoded.tag = "Ok"
    /\ roman' = encoded.val
    /\ \E overflow_checks \in BOOLEAN :
          decoded' = to_arabic(encoded.val, overflow_checks)
    /\ phase' = "decoded"
    /\ UNCHANGED <<input, use_unicode, encoded, jinput, jret, scan, pos, last>>

\* to_arabic(roman)
Decode ==
    /\ phase = "call"
    /\ \E overflow_checks \in BOOLEAN :
          decoded' = to_arabic(roman, overflow_checks)
    /\ phase' = "decoded"
    /\ UNCHANGED <<input, use_unicode, roman, encoded, jinput, jret, scan, pos, last>>

\* to_japanese(jinput)
Japanese ==
    /\ phase = "call"
    /\ \E overflow_checks \in BOOLEAN :
          jret' = to_japanese(jinput, overflow_checks)
    /\ phase' = "japanese"
    /\ UNCHANGED <<input, use_unicode, roman, encoded, decoded, jinput, scan, pos, last>>

\* encode an integer, decode what the encoder returned
Init ==
    /\ phase = "call"
    /\ input \in 0..MaxInput
    /\ use_unicode \in BOOLEAN
    /\ roman = <<>>
    /\ encoded = None
    /\ decoded = None
    /\ jinput = <<0>>
    /\ jret = None
    /\ NoScan

Next == Encode \/ DecodeEncoded

Spec == Init /\ [][Next]_vars

\* decode a string over Alphabet
InitDecode ==
    /\ phase = "call"
    /\ input = 0
    /\ use_unicode = FALSE
    /\ roman \in Strings(Alphabet, MaxLen) \cup TestStrings
    /\ encoded = None
    /\ decoded = None
    /\ jinput = <<0>>
    /\ jret = None
    /\ NoScan

NextDecode == Decode

SpecDecode == InitDecode /\ [][NextDecode]_vars

\* decode a string of ASCII letters
InitAscii ==
    /\ phase = "call"
    /\ input = 0
    /\ use_unicode = FALSE
    /\ roman \in Strings(AsciiLetters, MaxAsciiLen)
    /\ encoded = None
    /\ decoded = None
    /\ jinput = <<0>>
    /\ jret = None
    /\ NoScan

NextAscii == Decode

SpecAscii == InitAscii /\ [][NextAscii]_vars

\* encode an integer in kanji
InitJapanese ==
    /\ phase = "call"
    /\ input = 0
    /\ use_unicode = FALSE
    /\ roman = <<>>
    /\ encoded = None
    /\ decoded = None
    /\ \/ jinput \in JTests
       \/ \E len \in 1..MaxDigits, lead \in JLead :
            \E extras \in [1..MaxExtra -> (1..len) \X JDigit] :
               /\ FitsU64(Build(len, lead, extras))
               /\ jinput = Build(len, lead, extras)
    /\ jret = None
    /\ NoScan

NextJapanese == Japanese

SpecJapanese == InitJapanese /\ [][NextJapanese]_vars

(***************************************************************************)
(* to_arabic, one iteration of its loop at a time.                         *)
(***************************************************************************)
\* the seven ASCII letters; the Unicode glyphs come with TestStrings
ScanAlphabet == AsciiLetters

\* to_arabic up to the loop: the upper-casing, the three early returns and
\* the buffer of four zeros
Begin ==
    /\ phase = "call"
    /\ LET s == to_uppercase(roman)
       IN  IF s = <<>> \/ IsWatchmaker(s) \/ HasInvalidCharacters(s)
           THEN /\ decoded' = to_arabic(roman, TRUE)
                /\ phase' = "decoded"
                /\ UNCHANGED <<scan, pos>>
           ELSE /\ scan' = ScanInit
                /\ pos' = Len(s)
                /\ phase' = "scanning"
                /\ UNCHANGED decoded
    /\ UNCHANGED <<input, use_unicode, roman, encoded, jinput, jret, last>>

\* one iteration of the loop, which returns from the function when a
\* sequence rule is broken (or aborts it)
ScanGlyph ==
    /\ phase = "scanning"
    /\ pos > 0
    /\ \E overflow_checks \in BOOLEAN :
          LET c == to_uppercase(roman)[pos]
              st == ScanStep(scan, c, overflow_checks)
          IN  /\ scan' = st
              /\ last' = [branch |-> IF st.status = "panic" THEN "panic"
                                     ELSE Branch(scan, c),
                          before |-> scan.value,
                          current |-> IF c \in NUMERALS
                                      THEN ROMAN_TO_ARABIC[c] ELSE 0,
                          prior |-> last.branch]
              /\ IF st.status = "scan"
                 THEN /\ pos' = pos - 1
                      /\ UNCHANGED <<phase, decoded>>
                 ELSE /\ phase' = "decoded"
                      /\ decoded' = IF st.status = "panic"
                                    THEN Panic("attempt to subtract with overflow")
                                    ELSE IF st.status = "key not found"
                                    THEN Panic("key not found in HashMap")
                                    ELSE Err(st.status)
                      /\ UNCHANGED pos
    /\ UNCHANGED <<input, use_unicode, roman, encoded, jinput, jret>>

\* Ok(value), after the last iteration
Return ==
    /\ phase = "scanning"
    /\ pos = 0
    /\ decoded' = Ok(scan.value)
    /\ phase' = "decoded"
    /\ UNCHANGED <<input, use_unicode, roman, encoded, jinput, jret,
                   scan, pos, last>>

InitScan ==
    /\ phase = "call"
    /\ input = 0
    /\ use_unicode = FALSE
    /\ roman \in Strings(ScanAlphabet, MaxScanLen) \cup TestStrings
    /\ encoded = None
    /\ decoded = None
    /\ jinput = <<0>>
    /\ jret = None
    /\ NoScan

NextScan == Begin \/ ScanGlyph \/ Return

SpecScan == InitScan /\ [][NextScan]_vars

(***************************************************************************)
(* Vocabulary of the properties.                                           *)
(***************************************************************************)
\* the string handed to to_arabic, as the decoder sees it after upper-casing
Upper == to_uppercase(roman)

\* every character of the string u is a recognised numeral glyph
RecognisedGlyphs(u) == \A i \in 1..Len(u) : u[i] \in NUMERALS

\* every character of the upper-cased string is a recognised numeral glyph
Recognised == RecognisedGlyphs(Upper)

\* the number of occurrences of the glyph g in the string s
RECURSIVE Count(_, _)
Count(s, g) ==
    IF s = <<>> THEN 0
    ELSE (IF Head(s) = g THEN 1 ELSE 0) + Count(Tail(s), g)

\* the magnitudes of the glyphs of a string of recognised glyphs
Mags(s) == [i \in 1..Len(s) |-> ROMAN_TO_ARABIC[s[i]]]

(***************************************************************************)
(* Roman numerals: encode, then decode.                                    *)
(***************************************************************************)
\* C1: for every n in [1, 3999] and both styles, to_roman(n) succeeds and
\* to_arabic of its result succeeds and returns exactly n.
C1_RoundTrip ==
    input \in 1..3999 =>
       /\ phase \in {"encoded", "decoded"} => encoded.tag = "Ok"
       /\ phase = "decoded" => decoded.tag = "Ok" /\ decoded.val = input

\* 3888 is the longest numeral; here it has gone through both calls
C1_Witness ==
    /\ phase = "decoded"
    /\ input = 3888
    /\ use_unicode
    /\ Len(roman) = 15
    /\ decoded = Ok(3888)

\* C7: for every n in [1, 3999] the Unicode output holds no ASCII letter,
\* the ASCII output holds only ASCII letters, and the two outputs have the
\* same length and the same magnitude at every place.
C7_ParallelTables ==
    (phase # "call" /\ input \in 1..3999) =>
       /\ encoded.tag = "Ok"
       /\ use_unicode =>
            \A i \in 1..Len(encoded.val) : encoded.val[i] \notin AsciiLetters
       /\ ~use_unicode =>
            \A i \in 1..Len(encoded.val) : encoded.val[i] \in AsciiLetters
       /\ Mags(encoded.val) = Mags(to_roman(input, ~use_unicode).val)

\* C8: to_roman fails with the out-of-range error, and returns no string,
\* exactly when the input is outside [1, 3999]; inside the range it returns
\* a non-empty string.
C8_OutOfRange ==
    phase # "call" =>
       /\ encoded.tag \in {"Ok", "Err"}
       /\ encoded.tag = "Err" <=> (input < 1 \/ input > 3999)
       /\ encoded.tag = "Err" =>
            /\ "val" \notin DOMAIN encoded
            /\ encoded.arg = input
       /\ encoded.tag = "Ok" => Len(encoded.val) > 0

\* 4000, the first value above the range, was refused
C8_Witness ==
    /\ phase = "encoded"
    /\ input = 4000
    /\ use_unicode
    /\ encoded.tag = "Err"

(***************************************************************************)
(* Roman numerals: decode.                                                 *)
(***************************************************************************)
\* C4: every string of the ASCII letters I, V, X, L, C, D, M that to_arabic
\* accepts decodes to an integer in [1, 3999].
C4_AsciiRange ==
    (phase = "decoded" /\ decoded.tag = "Ok"
       /\ LET u == Upper IN \A i \in 1..Len(u) : u[i] \in AsciiLetters)
    => decoded.val \in 1..3999

\* C5: a string of ASCII letters in which V, L or D occurs twice in a row
\* fails with "Invalid sequence"; II, XX, CC, MM decode to 2, 20, 200, 2000.
C5_OnlyIXCMRepeat ==
    phase = "decoded" =>
       /\ ( /\ \A i \in 1..Len(roman) : roman[i] \in AsciiLetters
            /\ \E i \in 1..(Len(roman) - 1) :
                  roman[i] = roman[i + 1] /\ roman[i] \in {"V", "L", "D"} )
          => decoded = Err("Invalid sequence")
       /\ roman = <<"I", "I">> => decoded = Ok(2)
       /\ roman = <<"X", "X">> => decoded = Ok(20)
       /\ roman = <<"C", "C">> => decoded = Ok(200)
       /\ roman = <<"M", "M">> => decoded = Ok(2000)

\* C6: to_arabic returns 4 for the input that upper-cases to exactly IIII
\* (or to four Unicode numerals ONE), and fails with "Invalid sequence" for
\* every other string of recognised glyphs that holds four consecutive
\* glyphs of equal magnitude.
C6_Watchmaker ==
    phase = "decoded" =>
       LET u == Upper
           literal == \/ u = <<"I", "I", "I", "I">>
                      \/ u = <<"U2160", "U2160", "U2160", "U2160">>
       IN  /\ literal => decoded = Ok(4)
           /\ (RecognisedGlyphs(u) /\ ~literal)
                 => LET m == Mags(u)
                    IN  (\E i \in 1..(Len(m) - 3) :
                            \A k \in 1..3 : m[i + k] = m[i])
                        => decoded = Err("Invalid sequence")

\* VIIII holds four I in a row and was refused
C6_Witness ==
    /\ phase = "decoded"
    /\ roman = <<"V", "I", "I", "I", "I">>
    /\ decoded = Err("Invalid sequence")

\* C9: to_arabic fails with "Invalid empty string" exactly for the empty
\* input; a non-empty input with a character that, upper-cased, is no
\* recognised glyph fails with "Input contains invalid characters", wherever
\* the character stands and whatever sequence rule the rest breaks; so
\* "Invalid sequence" is reported only for strings of recognised glyphs.
C9_ErrorClasses ==
    phase = "decoded" =>
       /\ decoded = Err("Invalid empty string") <=> roman = <<>>
       /\ (roman # <<>> /\ ~Recognised)
             => decoded = Err("Input contains invalid characters")
       /\ decoded = Err("Invalid sequence") => Recognised

\* IIIIS breaks the four-in-a-row rule and ends with a character that is no
\* numeral: the character is what is reported
C9_Witness ==
    /\ phase = "decoded"
    /\ roman = <<"I", "I", "I", "I", "S">>
    /\ decoded = Err("Input contains invalid characters")

\* C10: a string of recognised glyphs in which some glyph is strictly
\* smaller than the glyph two places to its right fails with
\* "Invalid sequence".
C10_TwoSubtractions ==
    phase = "decoded" =>
       LET u == Upper
       IN  RecognisedGlyphs(u) =>
              LET m == Mags(u)
              IN  (\E i \in 1..(Len(m) - 2) : m[i] < m[i + 2])
                  => decoded = Err("Invalid sequence")

\* XXC: the first X is smaller than the C two places to its right
C10_Witness ==
    /\ phase = "decoded"
    /\ roman = <<"X", "X", "C">>
    /\ decoded = Err("Invalid sequence")

(***************************************************************************)
(* Japanese numerals.                                                      *)
(***************************************************************************)
\* C2: to_japanese returns a string, without aborting, for every u64.
C2_Total ==
    phase = "japanese" => jret.tag = "Ok"

\* C3: for every n in [1, 10^16) the output of to_japanese holds each of
\* the unit glyphs man, oku and chou at most once.
C3_UnitOnce ==
    (phase = "japanese" /\ jinput # <<0>> /\ Len(jinput) <= 16) =>
       /\ jret.tag = "Ok"
       /\ \A g \in {"man", "oku", "chou"} : Count(jret.val, g) <= 1

(***************************************************************************)
(* Roman numerals: the running total of the decoder.                       *)
(***************************************************************************)
\* C11: in the scan of a string of recognised glyphs, whenever the
\* subtractive branch (value -= current) is taken, the glyph before it was
\* added and the running total is strictly greater than current; the total
\* is at least 1 after every processed glyph, the subtraction never
\* overflows, and every accepted string decodes to a value of at least 1.
C11_NoUnderflow ==
    /\ last.branch = "subtract" =>
          /\ last.prior = "add"
          /\ last.before > last.current
    /\ last.branch \in {"add", "subtract"} => scan.value >= 1
    /\ last.branch # "panic"
    /\ decoded.tag # "Panic"
    /\ (phase = "decoded" /\ decoded.tag = "Ok") => decoded.val >= 1

\* in XIV the I has just been subtracted from the total 5
C11_Witness ==
    /\ phase = "scanning"
    /\ roman = <<"X", "I", "V">>
    /\ pos = 1
    /\ last.branch = "subtract"
    /\ last.before = 5
    /\ last.current = 1
    /\ scan.value = 4

\* the loop run glyph by glyph returns what to_arabic returns
ScanAgrees ==
    phase = "decoded" =>
       decoded \in {to_arabic(roman, TRUE), to_arabic(roman, FALSE)}

====
